---- MODULE Spec2Model ----
(***************************************************************************)
(* Verification model of three components of the repository:               *)
(*   - Point_inside_vertical_ray_cast  (point-in-polyhedron by ray cast),  *)
(*   - Classification::Evaluation      (confusion-matrix statistics),      *)
(*   - read_las_point_set              (LAS point-cloud ingestion).        *)
(***************************************************************************)
EXTENDS Integers, Sequences, FiniteSets, TLC

(***************************************************************************)
(* Bounds of the model.                                                    *)
(***************************************************************************)
MaxCoord == 3       \* x and y range over 0..MaxCoord, z over 0..MaxCoord+1
MaxCount == 2       \* largest crossing count a traversal reports
Modulus == 2        \* number of states of the pseudo-random generator

\* Number of probes of one call that the history variable `probes` records.
\* A call that returns does so within Modulus retries (the adapter is
\* deterministic and the generator has at most Modulus states), so the
\* history of every returning call is complete.
MaxProbes == Modulus + 2

(***************************************************************************)
(* Point_inside_vertical_ray_cast                                          *)
(***************************************************************************)
VARIABLES
  bbox,          \* tree.bbox(): the bounding box of the AABB tree
  answers,       \* the tree's traversal outcome for each ray already cast
                 \* from the current query point (direction -> status)
  pc,            \* position of the caller: "idle", "retry", "done"
  point,         \* argument `point` of the call in progress (<<>> if none)
  query,         \* local `query`: the current probe ray (<<>> if none)
  status,        \* pair (tribool, count) filled by the last traversal
  res,           \* local `res`: optional Bounded_side, "none" if empty
  rg,            \* local generator `rg`/`random_point` (<<>> if not built)
  ret,           \* value returned by operator(), "none" before the return
  probes,        \* history: the probes of the call, [query, status] each
  prev,          \* history: the previous completed call, kept while the
                 \* same point is queried again (<<>> otherwise)
  carried        \* history: generator state at the end of the latest call
                 \* that built a generator (<<>> if none did)

rayVars == <<bbox, answers, pc, point, query, status, res, rg, ret, probes,
             prev, carried>>

seed == 1340818006

Coord == 0 .. MaxCoord
ZCoord == 0 .. (MaxCoord + 1)
Points == Coord \X Coord \X ZCoord

\* Bounding boxes of the trees considered: one with the z midpoint between
\* two grid values, one with the z midpoint on a grid value.
Boxes ==
  { [xmin |-> 1, xmax |-> 2, ymin |-> 1, ymax |-> 2, zmin |-> 1, zmax |-> zhi] :
      zhi \in {2, 3} }

Tribool == {"true", "false", "indeterminate"}
Statuses == Tribool \X (0 .. MaxCount)

\* status as initialised at the top of is_inside_ray_tree_traversal
InitialStatus == <<"indeterminate", 0>>

\* CGAL::Random rg(seed): the generator state reached from the seed.
Seeded(s) == s % Modulus

\* One draw of the generator (Random_points_on_sphere_3::operator++).
Advance(s) == (s + 1) % Modulus

\* The point of the sphere the generator yields in state s.  The points are
\* the integer vectors with coordinates (+-1, +-2, +-2) in some order: all
\* of the same length and none axis-aligned.
SpherePoint(s) ==
  LET k == s % 3
      sx == IF (s \div 3) % 2 = 0 THEN 1 ELSE -1
      sy == IF (s \div 6) % 2 = 0 THEN 1 ELSE -1
      sz == IF (s \div 12) % 2 = 0 THEN 1 ELSE -1
  IN  << sx * (IF k = 0 THEN 1 ELSE 2),
         sy * (IF k = 1 THEN 1 ELSE 2),
         sz * (IF k = 2 THEN 1 ELSE 2) >>

\* vector_functor(CGAL::ORIGIN, p): the vector from the origin to p
vector_functor(p) == <<p[1] - 0, p[2] - 0, p[3] - 0>>

\* ray_functor(origin, direction)
ray_functor(p, v) == [origin |-> p, direction |-> v]

\* The test with the faces of the box rejected too.
OutsideBBox_faces(p, b) ==
  \/ p[1] <= b.xmin \/ p[1] >= b.xmax
  \/ p[2] <= b.ymin \/ p[2] >= b.ymax
  \/ p[3] <= b.zmin \/ p[3] >= b.zmax

\* The bounding-box test at the top of operator(): TRUE when the point is
\* rejected.
OutsideBBox(p, b) ==
  \/ p[1] < b.xmin \/ p[1] > b.xmax
  \/ p[2] < b.ymin \/ p[2] > b.ymax
  \/ p[3] < b.zmin \/ p[3] > b.zmax

\* The direction with the midpoint sent downward.
VerticalDirection_le(p, b) ==
  <<0, 0, (IF 2 * p[3] <= b.zmax + b.zmin THEN -1 ELSE 1)>>

\* Direction of the first, vertical ray.
VerticalDirection(p, b) ==
  <<0, 0, (IF 2 * p[3] < b.zmax + b.zmin THEN -1 ELSE 1)>>

\* tree.traversal(ray, traversal_traits): the tree may leave any status in
\* `status`, but a ray whose outcome is known gets that outcome again.
Traversal(known, ray, st) ==
  /\ st \in Statuses
  /\ ray.direction \in DOMAIN known => st = known[ray.direction]

\* The decoding with "some crossing" in place of "odd number of crossings".
is_inside_ray_tree_traversal_any(st) ==
  IF st[1] # "indeterminate"
    THEN IF st[1] = "true"
           THEN (IF st[2] >= 1 THEN "ON_BOUNDED_SIDE"
                               ELSE "ON_UNBOUNDED_SIDE")
           ELSE "ON_BOUNDARY"
    ELSE "none"

\* The decoding of the status at the end of is_inside_ray_tree_traversal.
is_inside_ray_tree_traversal(st) ==
  IF st[1] # "indeterminate"
    THEN IF st[1] = "true"
           THEN (IF st[2] % 2 = 1 THEN "ON_BOUNDED_SIDE"
                                  ELSE "ON_UNBOUNDED_SIDE")
           ELSE "ON_BOUNDARY"
    ELSE "none"

\* The history of probes, recording at most MaxProbes of them.
Record(log, q, st) ==
  IF Len(log) < MaxProbes THEN Append(log, [query |-> q, status |-> st])
                          ELSE log

\* The outcomes known after the ray q got status st.
Remember(known, q, st) ==
  IF q.direction \in DOMAIN known THEN known
                                  ELSE known @@ (q.direction :> st)

\* The outcomes known for rays from p: those of the previous call when it
\* had the same point, none otherwise.
Known(p) == IF prev # <<>> /\ prev[1].point = p THEN answers ELSE <<>>

RayInit ==
  /\ bbox \in Boxes
  /\ answers = <<>>
  /\ pc = "idle"
  /\ point = <<>>
  /\ query = <<>>
  /\ status = InitialStatus
  /\ res = "none"
  /\ rg = <<>>
  /\ ret = "none"
  /\ probes = <<>>
  /\ prev = <<>>
  /\ carried = <<>>

\* A generator that lives as long as the process: it is seeded once and each
\* call goes on from the state the previous one left.
NewRandom_static(r) ==
  r = IF carried # <<>> THEN carried ELSE <<Seeded(seed)>>

\* A generator seeded from the clock: any state.
NewRandom_time(r) == r \in {<<s>> : s \in 0 .. (Modulus - 1)}

\* CGAL::Random rg(seed); Random_points_on_sphere_3<Point> random_point(1.,rg):
\* r is the generator built when the first probe is indeterminate.
NewRandom(r) == r = <<Seeded(seed)>>

\* operator() up to the first evaluation of the loop condition: the gate,
\* the vertical probe and, when it is indeterminate, the construction of
\* the generator.
Classify(p) ==
  /\ pc = "idle"
  /\ point' = p
  /\ prev' = IF prev # <<>> /\ prev[1].point = p THEN prev ELSE <<>>
  /\ UNCHANGED <<bbox, carried>>
  /\ IF OutsideBBox(p, bbox)
       THEN /\ ret' = "ON_UNBOUNDED_SIDE"
            /\ pc' = "done"
            /\ query' = <<>>
            /\ status' = InitialStatus
            /\ res' = "none"
            /\ rg' = <<>>
            /\ probes' = <<>>
            /\ answers' = Known(p)
       ELSE LET q == ray_functor(p, VerticalDirection(p, bbox))
            IN \E st \in Statuses :
                 /\ Traversal(Known(p), q, st)
                 /\ answers' = Remember(Known(p), q, st)
                 /\ query' = <<q>>
                 /\ status' = st
                 /\ res' = is_inside_ray_tree_traversal(st)
                 /\ probes' = Record(<<>>, q, st)
                 /\ IF is_inside_ray_tree_traversal(st) = "none"
                      THEN /\ NewRandom(rg')
                           /\ pc' = "retry"
                           /\ ret' = "none"
                      ELSE /\ rg' = <<>>
                           /\ pc' = "done"
                           /\ ret' = is_inside_ray_tree_traversal(st)

\* The loop with the crossing count carried over from the probe before.
Retry_accumulate ==
  /\ pc = "retry"
  /\ LET q == ray_functor(point, vector_functor(SpherePoint(rg[1])))
     IN \E st \in Statuses :
          LET acc == <<st[1], (status[2] + st[2]) % (MaxCount + 1)>>
          IN /\ Traversal(answers, q, st)
             /\ answers' = Remember(answers, q, st)
             /\ query' = <<q>>
             /\ rg' = <<Advance(rg[1])>>
             /\ status' = acc
             /\ res' = is_inside_ray_tree_traversal(acc)
             /\ probes' = Record(probes, q, st)
             /\ IF is_inside_ray_tree_traversal(acc) = "none"
                  THEN pc' = "retry" /\ ret' = "none"
                  ELSE pc' = "done"
                       /\ ret' = is_inside_ray_tree_traversal(acc)
  /\ UNCHANGED <<bbox, point, prev, carried>>

\* The loop with a ceiling: once every direction of the generator has been
\* tried it gives up and answers ON_UNBOUNDED_SIDE.
Retry_ceiling ==
  /\ pc = "retry"
  /\ LET q == ray_functor(point, vector_functor(SpherePoint(rg[1])))
     IN \E st \in Statuses :
          LET giveup == /\ is_inside_ray_tree_traversal(st) = "none"
                        /\ Len(probes) >= Modulus
              r == IF giveup THEN "ON_UNBOUNDED_SIDE"
                             ELSE is_inside_ray_tree_traversal(st)
          IN /\ Traversal(answers, q, st)
             /\ answers' = Remember(answers, q, st)
             /\ query' = <<q>>
             /\ rg' = <<Advance(rg[1])>>
             /\ status' = st
             /\ res' = r
             /\ probes' = Record(probes, q, st)
             /\ IF r = "none"
                  THEN pc' = "retry" /\ ret' = "none"
                  ELSE pc' = "done" /\ ret' = r
  /\ UNCHANGED <<bbox, point, prev, carried>>

\* One iteration of the do-while loop, and the return when it ends.
Retry ==
  /\ pc = "retry"
  /\ LET q == ray_functor(point, vector_functor(SpherePoint(rg[1])))
     IN \E st \in Statuses :
          /\ Traversal(answers, q, st)
          /\ answers' = Remember(answers, q, st)
          /\ query' = <<q>>
          /\ rg' = <<Advance(rg[1])>>
          /\ status' = st
          /\ res' = is_inside_ray_tree_traversal(st)
          /\ probes' = Record(probes, q, st)
          /\ IF is_inside_ray_tree_traversal(st) = "none"
               THEN pc' = "retry" /\ ret' = "none"
               ELSE pc' = "done" /\ ret' = is_inside_ray_tree_traversal(st)
  /\ UNCHANGED <<bbox, point, prev, carried>>

\* The caller takes the returned value; the locals of the call die.
Return ==
  /\ pc = "done"
  /\ pc' = "idle"
  /\ prev' = << [point |-> point, probes |-> probes, ret |-> ret] >>
  /\ carried' = IF rg # <<>> THEN rg ELSE carried
  /\ point' = <<>>
  /\ query' = <<>>
  /\ status' = InitialStatus
  /\ res' = "none"
  /\ rg' = <<>>
  /\ ret' = "none"
  /\ probes' = <<>>
  /\ UNCHANGED <<bbox, answers>>

RayNext ==
  \/ \E p \in Points : Classify(p)
  \/ Retry
  \/ Return


(***************************************************************************)
(* Classification::Evaluation                                              *)
(***************************************************************************)
NumLabels == 2      \* m_labels.size()
MaxItems == 3       \* total number of positions appended to one Evaluation

VARIABLES
  m_confusion,   \* confusion matrix, m_confusion[result][ground_truth]
  appended,      \* history: every appended position, <<ground_truth, result>>
  called,        \* history: append has been called
  report         \* the values read by the latest Measure (<<>> when stale)

evalVars == <<m_confusion, appended, called, report>>

Labels == 0 .. (NumLabels - 1)

\* Values of the index ranges: a label index, or -1 for "no information".
Indices == Labels \cup {-1}

\* float values: NaN, or the quotient num/den of two integers
NaN == [kind |-> "nan", num |-> 0, den |-> 1]
Inf == [kind |-> "inf", num |-> 1, den |-> 0]
Float(n, d) == [kind |-> "num", num |-> n, den |-> d]

\* n / float(t) for unsigned n and t
Div(n, t) ==
  IF t = 0 THEN (IF n = 0 THEN NaN ELSE Inf) ELSE Float(n, t)

\* comparison of a float with 0.f and with 1.f (NaN compares unequal)
IsZero(v) == v.kind = "num" /\ v.num = 0
IsOne(v) == v.kind = "num" /\ v.num = v.den

RECURSIVE Sum(_, _)
\* f[0] + ... + f[n-1]
Sum(f, n) == IF n = 0 THEN 0 ELSE Sum(f, n - 1) + f[n - 1]

\* Evaluation::init
init == [r \in Labels |-> [g \in Labels |-> 0]]

\* Evaluation::label_has_ground_truth
label_has_ground_truth(label_idx) ==
  \E i \in Labels : m_confusion[i][label_idx] # 0

\* The body with the two indices of the matrix exchanged.
AppendStep_swapped(m, gt, result) ==
  IF gt = -1 \/ result = -1
    THEN m
    ELSE [m EXCEPT ![gt][result] = @ + 1]

\* body of the loop of Evaluation::append for position i
AppendStep(m, gt, result) ==
  IF gt = -1 \/ result = -1
    THEN m
    ELSE [m EXCEPT ![result][gt] = @ + 1]

RECURSIVE AppendFrom(_, _, _, _)
\* the loop of Evaluation::append from position i on
AppendFrom(m, ground_truth, result, i) ==
  IF i > Len(ground_truth)
    THEN m
    ELSE AppendFrom(AppendStep(m, ground_truth[i], result[i]),
                    ground_truth, result, i + 1)

\* precision without the test of label_has_ground_truth
precision_unguarded(idx) ==
  LET total == Sum([i \in Labels |-> m_confusion[idx][i]], NumLabels)
  IN  IF total = 0 THEN Float(0, 1)
                   ELSE Div(m_confusion[idx][idx], total)

\* Evaluation::precision
precision(idx) ==
  IF ~ label_has_ground_truth(idx)
    THEN NaN
    ELSE LET total == Sum([i \in Labels |-> m_confusion[idx][i]], NumLabels)
         IN  IF total = 0 THEN Float(0, 1)
                          ELSE Div(m_confusion[idx][idx], total)

\* Evaluation::recall
recall(idx) ==
  IF ~ label_has_ground_truth(idx)
    THEN NaN
    ELSE LET total == Sum([i \in Labels |-> m_confusion[i][idx]], NumLabels)
         IN  Div(m_confusion[idx][idx], total)

\* Evaluation::f1_score
f1_score(idx) ==
  LET p == precision(idx)
      r == recall(idx)
  IN  IF IsZero(p) /\ IsZero(r)
        THEN Float(0, 1)
        ELSE IF p.kind = "num" /\ r.kind = "num"
               THEN Div(2 * p.num * r.num, p.num * r.den + r.num * p.den)
               ELSE NaN

\* Evaluation::intersection_over_union
intersection_over_union(idx) ==
  LET total == Sum([i \in Labels |->
                      m_confusion[i][idx]
                      + (IF i # idx THEN m_confusion[idx][i] ELSE 0)],
                   NumLabels)
  IN  Div(m_confusion[idx][idx], total)

\* Evaluation::number_of_misclassified_items
number_of_misclassified_items ==
  Sum([i \in Labels |->
         Sum([j \in Labels |-> IF i # j THEN m_confusion[i][j] ELSE 0],
             NumLabels)],
      NumLabels)

\* Evaluation::number_of_items
number_of_items ==
  Sum([i \in Labels |-> Sum([j \in Labels |-> m_confusion[i][j]], NumLabels)],
      NumLabels)

\* accuracy with the true positives of the first label left out
accuracy_skipfirst ==
  LET true_positives ==
        Sum([i \in Labels |-> IF i = 0 THEN 0 ELSE m_confusion[i][i]],
            NumLabels)
      total == number_of_items
  IN  Div(true_positives, total)

\* Evaluation::accuracy
accuracy ==
  LET true_positives == Sum([i \in Labels |-> m_confusion[i][i]], NumLabels)
      total == number_of_items
  IN  Div(true_positives, total)

\* Evaluation(labels)
EvalInit ==
  /\ m_confusion = init
  /\ appended = <<>>
  /\ called = FALSE
  /\ report = <<>>

\* The pairs of index ranges of n positions each.
Batches(n) == [1 .. n -> Indices] \X [1 .. n -> Indices]

\* append(ground_truth, result)
append(ground_truth, result) ==
  /\ Len(appended) + Len(ground_truth) <= MaxItems
  /\ called' = TRUE
  /\ m_confusion' = AppendFrom(m_confusion, ground_truth, result, 1)
  /\ appended' = appended \o [i \in 1 .. Len(ground_truth) |->
                                <<ground_truth[i], result[i]>>]
  /\ report' = <<>>

\* A caller reads the per-label measures of `label` and the global ones.
Measure(label) ==
  /\ report = <<>>
  /\ report' = << [label |-> label,
                   precision |-> precision(label),
                   recall |-> recall(label),
                   f1_score |-> f1_score(label),
                   intersection_over_union |-> intersection_over_union(label),
                   accuracy |-> accuracy,
                   number_of_misclassified_items |->
                     number_of_misclassified_items] >>
  /\ UNCHANGED <<m_confusion, appended, called>>

EvalNext ==
  \/ \E n \in 0 .. (MaxItems - Len(appended)) :
       \E b \in Batches(n) : append(b[1], b[2])
  \/ \E l \in Labels : Measure(l)

(***************************************************************************)
(* read_las_point_set                                                      *)
(***************************************************************************)
MaxPoints == 2      \* number of points the reader delivers

VARIABLES
  las_pc,        \* position in read_las_point_set: "start", "reading", "done"
  point_set,     \* the points inserted, with the value put in each map
  properties     \* names of the property maps the point set holds

lasVars == <<las_pc, point_set, properties>>

\* Return numbers of a liblas::Point.
ReturnNumbers == {0, 1}

\* 16-bit values of a component of a liblas::Color: zero, the largest value
\* with a zero high byte, the smallest with a non-zero high byte.
ColorValues == {0, 255, 256}

\* The points reader.GetPoint() can deliver (the position plays no part).
LasPoints ==
  [ReturnNumber : ReturnNumbers, Red : ColorValues, Green : ColorValues,
   Blue : ColorValues]

\* conversion of a value to the unsigned char a map stores
UnsignedChar(v) == v % 256

\* The values put in the four maps for the point p (c.GetRed() >> 8, ...).
Put(p) ==
  [echo |-> UnsignedChar(p.ReturnNumber),
   red |-> UnsignedChar(p.Red \div 256),
   green |-> UnsignedChar(p.Green \div 256),
   blue |-> UnsignedChar(p.Blue \div 256)]

RECURSIVE Scan_perChannel(_, _, _)
\* The scan with the colours decided by the red map alone.
Scan_perChannel(ps, i, flags) ==
  IF i > Len(ps)
    THEN flags
    ELSE LET re == flags.remove_echo /\ ~ (ps[i].echo # 0)
             rc == flags.remove_colors /\ ~ (ps[i].red # 0)
             f == [remove_echo |-> re, remove_colors |-> rc]
         IN  IF ~ re /\ ~ rc THEN f ELSE Scan_perChannel(ps, i + 1, f)

RECURSIVE Scan(_, _, _)
\* The loop over the point set that decides which maps to remove, from the
\* i-th point on, with the flags as they stand.
Scan(ps, i, flags) ==
  IF i > Len(ps)
    THEN flags
    ELSE LET re == flags.remove_echo /\ ~ (ps[i].echo # 0)
             rc == flags.remove_colors
                     /\ ~ (ps[i].red # 0 \/ ps[i].green # 0 \/ ps[i].blue # 0)
             f == [remove_echo |-> re, remove_colors |-> rc]
         IN  IF ~ re /\ ~ rc THEN f ELSE Scan(ps, i + 1, f)

\* Before the call: an empty point set without property maps.
LasInit ==
  /\ las_pc = "start"
  /\ point_set = <<>>
  /\ properties = {}

\* The four calls of add_property_map.
AddPropertyMaps ==
  /\ las_pc = "start"
  /\ las_pc' = "reading"
  /\ properties' = properties \cup {"echo", "red", "green", "blue"}
  /\ UNCHANGED point_set

\* One iteration of the reading loop: ReadNextPoint() delivered p.
ReadNextPoint(p) ==
  /\ las_pc = "reading"
  /\ Len(point_set) < MaxPoints
  /\ point_set' = Append(point_set, Put(p))
  /\ UNCHANGED <<las_pc, properties>>

\* ReadNextPoint() returned false: the scan, the removals and the return.
RemoveUnused ==
  /\ las_pc = "reading"
  /\ las_pc' = "done"
  /\ LET flags == Scan(point_set, 1,
                       [remove_echo |-> TRUE, remove_colors |-> TRUE])
     IN properties' =
          (properties \ (IF flags.remove_echo THEN {"echo"} ELSE {}))
             \ (IF flags.remove_colors THEN {"red", "green", "blue"} ELSE {})
  /\ UNCHANGED point_set

LasNext ==
  \/ AddPropertyMaps
  \/ \E p \in LasPoints : ReadNextPoint(p)
  \/ RemoveUnused

(***************************************************************************)
(* Specifications                                                          *)
(***************************************************************************)
vars == <<rayVars, evalVars, lasVars>>

Init == RayInit /\ EvalInit /\ LasInit

Next == RayNext /\ UNCHANGED <<evalVars, lasVars>>

\* The point-inside test: a sequence of calls of operator() on one tree.
Spec == Init /\ [][Next]_vars

\* The same with the loop of a call in progress always taking its next
\* iteration (the call is a synchronous busy loop).
LiveSpec == Spec /\ WF_vars(Retry /\ UNCHANGED <<evalVars, lasVars>>)

EvalStep == EvalNext /\ UNCHANGED <<rayVars, lasVars>>

\* The state after the construction of an Evaluation (the tree plays no part).
EvalStart == Init /\ bbox.zmax = 3

\* One Evaluation object: appends and reads in any order.
EvalSpec == EvalStart /\ [][EvalStep]_vars

LasStep == LasNext /\ UNCHANGED <<rayVars, evalVars>>

\* One call of read_las_point_set on an empty point set.
LasSpec == EvalStart /\ [][LasStep]_vars

(***************************************************************************)
(* Properties of Point_inside_vertical_ray_cast                            *)
(***************************************************************************)

\* The verdict that the classifier contract assigns to a determinate status.
Verdict(st) ==
  IF st[1] = "false" THEN "ON_BOUNDARY"
  ELSE IF \E k \in 0 .. MaxCount : st[2] = 2 * k + 1 THEN "ON_BOUNDED_SIDE"
  ELSE "ON_UNBOUNDED_SIDE"

\* A call is in progress or has just returned, and it passed the gate.
Probed == pc \in {"retry", "done"} /\ probes # <<>>

\* The point lies in the box, faces included.
WithinBBox(p, b) ==
  /\ b.xmin <= p[1] /\ p[1] <= b.xmax
  /\ b.ymin <= p[2] /\ p[2] <= b.ymax
  /\ b.zmin <= p[3] /\ p[3] <= b.zmax

RECURSIVE Stream(_)
\* The state of a freshly seeded generator after k draws.
Stream(k) == IF k = 0 THEN Seeded(seed) ELSE Advance(Stream(k - 1))

\* Every direction the generator can yield is known to be indeterminate for
\* the query point.
EveryProbeIndeterminate ==
  \A s \in 0 .. (Modulus - 1) :
    /\ vector_functor(SpherePoint(s)) \in DOMAIN answers
    /\ answers[vector_functor(SpherePoint(s))][1] = "indeterminate"

\* C1: a call that returns after a traversal returns ON_BOUNDARY when the
\* status is tribool false, ON_BOUNDED_SIDE when it is true with an odd
\* count, ON_UNBOUNDED_SIDE when it is true with an even count (zero
\* included), and never returns on an indeterminate status.
C1_VerdictOfStatus ==
  (pc = "done" /\ probes # <<>>) =>
     /\ status[1] \in {"true", "false"}
     /\ status[1] = "false" => ret = "ON_BOUNDARY"
     /\ (status[1] = "true" /\ \E k \in 0 .. MaxCount : status[2] = 2 * k + 1)
          => ret = "ON_BOUNDED_SIDE"
     /\ (status[1] = "true" /\ \E k \in 0 .. MaxCount : status[2] = 2 * k)
          => ret = "ON_UNBOUNDED_SIDE"

\* C1 witness: a call returned ON_UNBOUNDED_SIDE on a determinate status with
\* a non-zero even count.
C1_Witness ==
  pc = "done" /\ status = <<"true", 2>> /\ ret = "ON_UNBOUNDED_SIDE"

\* C2: a point strictly outside the box on some axis gets ON_UNBOUNDED_SIDE
\* with no traversal at all; a point within the box, faces included, is not
\* rejected and gets at least one traversal.
C2_Gate ==
  pc \in {"retry", "done"} =>
     /\ (\/ point[1] < bbox.xmin \/ point[1] > bbox.xmax
         \/ point[2] < bbox.ymin \/ point[2] > bbox.ymax
         \/ point[3] < bbox.zmin \/ point[3] > bbox.zmax) =>
          (pc = "done" /\ ret = "ON_UNBOUNDED_SIDE" /\ probes = <<>>
             /\ query = <<>>)
     /\ WithinBBox(point, bbox) =>
          (Len(probes) >= 1 /\ probes[1].query.origin = point)

\* C2 witness: a point on a face of the box (and on an edge of it) has been
\* probed.
C2_Witness ==
  /\ Probed
  /\ point[1] = bbox.xmin /\ point[3] = bbox.zmax
  /\ Len(probes) >= 1

\* C3: a call that passed the gate returns only on a determinate status, all
\* the traversals before the last one were indeterminate, and the value
\* returned is the verdict of the status of the last traversal alone.
C3_LastProbeDecides ==
  /\ (pc = "retry") =>
       \A i \in 1 .. Len(probes) : probes[i].status[1] = "indeterminate"
  /\ (pc = "done" /\ probes # <<>>) =>
       /\ Len(probes) < MaxProbes
       /\ \A i \in 1 .. (Len(probes) - 1) :
            probes[i].status[1] = "indeterminate"
       /\ probes[Len(probes)].status[1] # "indeterminate"
       /\ ret = Verdict(probes[Len(probes)].status)
       /\ res = ret

\* C3 witness: a call returned ON_BOUNDED_SIDE after two indeterminate probes
\* that counted crossings too.
C3_Witness ==
  /\ pc = "done" /\ Len(probes) = 3
  /\ probes[1].status[2] = 1 /\ probes[2].status[2] = 2
  /\ probes[3].status = <<"true", 1>>
  /\ ret = "ON_BOUNDED_SIDE"

\* C4: a call whose vertical probe is indeterminate goes on retrying until
\* it returns a verdict or every direction has proved indeterminate; the
\* loop has no ceiling (its next iteration is always possible), and once
\* every direction is indeterminate the call never returns.
C4_RetryUntilDeterminate ==
  /\ (pc = "retry") ~>
       \/ pc = "done" /\ ret \in {"ON_BOUNDED_SIDE", "ON_BOUNDARY",
                                  "ON_UNBOUNDED_SIDE"}
       \/ pc = "retry" /\ EveryProbeIndeterminate
  /\ [](pc = "retry" => ENABLED Retry)
  /\ [][(pc = "retry" /\ EveryProbeIndeterminate) =>
          (pc' = "retry" /\ ret' = "none")]_vars

\* C4 witness: a call has returned a verdict after an indeterminate vertical
\* probe and two retries.
C4_Witness ==
  /\ pc = "done" /\ Len(probes) = 3
  /\ probes[1].status[1] = "indeterminate"
  /\ ret \in {"ON_BOUNDED_SIDE", "ON_BOUNDARY", "ON_UNBOUNDED_SIDE"}

\* C5 as stated: the first retry direction of a call continues the sequence
\* of directions where the latest call that retried stopped.
C5_CarriedAcrossCalls ==
  (Probed /\ Len(probes) >= 2 /\ carried # <<>>) =>
     probes[2].query.direction = vector_functor(SpherePoint(carried[1]))

\* C5 amended: the generator is built from the fixed seed in every call that
\* retries, so the retry directions of every call are the directions of the
\* seed from the first one on, whatever earlier calls drew.
C5_SeededPerCall ==
  /\ Probed =>
       \A i \in 2 .. Len(probes) :
         (i < MaxProbes) =>
           probes[i].query.direction = vector_functor(SpherePoint(Stream(i - 2)))
  /\ (pc = "retry" /\ Len(probes) < MaxProbes) =>
       rg = <<Stream(Len(probes) - 1)>>

\* C5 witness: a call retries after an earlier call left its generator in a
\* state other than the seeded one.
C5_Witness ==
  /\ Probed /\ Len(probes) >= 2
  /\ carried # <<>> /\ carried # <<Seeded(seed)>>

\* C6: a call with the same point on the same tree as the call before it
\* casts the same rays in the same order and returns the same value.
C6_Reproducible ==
  (pc = "done" /\ prev # <<>>) =>
     /\ prev[1].point = point
     /\ Len(probes) = Len(prev[1].probes)
     /\ \A i \in 1 .. Len(probes) :
          probes[i].query = prev[1].probes[i].query
     /\ ret = prev[1].ret

\* C6 witness: the second of two calls with the same point returned after
\* two retries.
C6_Witness ==
  /\ pc = "done" /\ prev # <<>> /\ prev[1].point = point
  /\ Len(probes) = 3

\* C7: the first ray starts at the query point and is vertical, downward
\* when z is strictly below the middle of the box and upward otherwise; the
\* rays of the retries start at the query point too.
C7_VerticalFirst ==
  Probed =>
     /\ probes[1].query.origin = point
     /\ (2 * point[3] < bbox.zmax + bbox.zmin) =>
          probes[1].query.direction = <<0, 0, -1>>
     /\ (2 * point[3] >= bbox.zmax + bbox.zmin) =>
          probes[1].query.direction = <<0, 0, 1>>
     /\ \A i \in 1 .. Len(probes) : probes[i].query.origin = point
     /\ query = <<probes[Len(probes)].query>> \/ Len(probes) = MaxProbes

\* C7 witness: a point at the middle height of the box got an upward ray and
\* then a retry.
C7_Witness ==
  /\ Probed /\ Len(probes) >= 2
  /\ 2 * point[3] = bbox.zmax + bbox.zmin
  /\ probes[1].query.direction = <<0, 0, 1>>

(***************************************************************************)
(* Properties of Classification::Evaluation                                *)
(***************************************************************************)

\* Number of appended positions with ground truth g and result r.
Occurrences(g, r) ==
  Cardinality({i \in 1 .. Len(appended) : appended[i] = <<g, r>>})

RECURSIVE Replay(_, _)
\* The matrix after the first n appended positions have been appended one
\* at a time, the last of them first.
Replay(m, n) ==
  IF n = 0 THEN m
  ELSE Replay(AppendFrom(m, <<appended[n][1]>>, <<appended[n][2]>>, 1), n - 1)

\* Every appended position has the same ground truth and result.
AllAgree == \A i \in 1 .. Len(appended) : appended[i][1] = appended[i][2]

\* C8: each cell [r][g] is the number of appended positions with result r
\* and ground truth g; positions with -1 count nowhere; the matrix is the
\* one obtained by appending the same positions in reverse, one per call.
C8_ConfusionCounts ==
  /\ \A r \in Labels : \A g \in Labels :
       m_confusion[r][g] = Occurrences(g, r)
  /\ number_of_items =
       Cardinality({i \in 1 .. Len(appended) :
                      appended[i][1] # -1 /\ appended[i][2] # -1})
  /\ m_confusion = Replay(init, Len(appended))

\* C8 witness: a cell off the diagonal counts two positions, and a position
\* with -1 was appended as well.
C8_Witness ==
  /\ m_confusion[1][0] = 2
  /\ \E i \in 1 .. Len(appended) : appended[i] = <<-1, 1>>

\* C9 as stated: every per-label measure of a label without ground truth is
\* NaN.
C9_AllNaN ==
  (report # <<>> /\ ~ label_has_ground_truth(report[1].label)) =>
     /\ report[1].precision = NaN
     /\ report[1].recall = NaN
     /\ report[1].f1_score = NaN
     /\ report[1].intersection_over_union = NaN

\* The label was predicted for some position with ground truth.
Predicted(l) == \E g \in Labels : m_confusion[l][g] # 0

\* C9 amended: for a label without ground truth, precision, recall and
\* f1_score are NaN whether or not the label was predicted;
\* intersection_over_union is NaN when the label was never predicted and 0
\* when it was.
C9_NaNExceptIoU ==
  (report # <<>> /\ ~ label_has_ground_truth(report[1].label)) =>
     /\ report[1].precision = NaN
     /\ report[1].recall = NaN
     /\ report[1].f1_score = NaN
     /\ ~ Predicted(report[1].label) =>
          report[1].intersection_over_union = NaN
     /\ Predicted(report[1].label) =>
          IsZero(report[1].intersection_over_union)

\* C9 witness: the measures of a label without ground truth that was
\* predicted have been read.
C9_Witness ==
  /\ report # <<>>
  /\ ~ label_has_ground_truth(report[1].label)
  /\ Predicted(report[1].label)

\* C10 as stated: after appends of ranges with ground truth equal to the
\* result, accuracy is 1 and nothing is misclassified, empty ranges and
\* ranges of -1 included.
C10_AccuracyOne ==
  (report # <<>> /\ called /\ AllAgree) =>
     /\ IsOne(report[1].accuracy)
     /\ report[1].number_of_misclassified_items = 0

\* C10 amended: after such appends nothing is misclassified; accuracy is 1
\* when some appended position has a value other than -1, and NaN when the
\* ranges were empty or held only -1.
C10_AccuracyOneOrNaN ==
  (report # <<>> /\ called /\ AllAgree) =>
     /\ report[1].number_of_misclassified_items = 0
     /\ (\E i \in 1 .. Len(appended) : appended[i][1] # -1) =>
          IsOne(report[1].accuracy)
     /\ (\A i \in 1 .. Len(appended) : appended[i][1] = -1) =>
          report[1].accuracy = NaN

\* C10 witness: accuracy was read after agreeing ranges with both labels and
\* a -1 were appended.
C10_Witness ==
  /\ report # <<>> /\ called /\ AllAgree
  /\ \E i \in 1 .. Len(appended) : appended[i] = <<-1, -1>>
  /\ \E i \in 1 .. Len(appended) : appended[i] = <<0, 0>>
  /\ \E i \in 1 .. Len(appended) : appended[i] = <<1, 1>>

(***************************************************************************)
(* Properties of read_las_point_set                                        *)
(***************************************************************************)

\* Some point has a non-zero value in the map named ch.
NonZero(ch) == \E i \in 1 .. Len(point_set) : point_set[i][ch] # 0

\* C11 as stated: after the return each of echo, red, green and blue is
\* present exactly when some point has a non-zero value in that map,
\* independently of the other maps.
C11_PerChannel ==
  (las_pc = "done") =>
     \A ch \in {"echo", "red", "green", "blue"} :
       (ch \in properties) <=> NonZero(ch)

\* C11 amended: after the return echo is present exactly when some point
\* has a non-zero echo; red, green and blue are kept or dropped together,
\* and are present exactly when some point has a non-zero value in at least
\* one of the three.
C11_ColoursTogether ==
  (las_pc = "done") =>
     /\ ("echo" \in properties) <=> NonZero("echo")
     /\ \A ch \in {"red", "green", "blue"} :
          (ch \in properties) <=>
             (NonZero("red") \/ NonZero("green") \/ NonZero("blue"))
     /\ properties \subseteq {"echo", "red", "green", "blue"}

\* C11 witness: the call returned with the three colour maps kept although
\* red is zero for every point, and with echo dropped.
C11_Witness ==
  /\ las_pc = "done" /\ Len(point_set) = 2
  /\ ~ NonZero("red") /\ NonZero("green") /\ ~ NonZero("echo")
  /\ properties = {"red", "green", "blue"}

====
